---- MODULE Spec2Model ----
(***************************************************************************)
(* Model of app.py: the Flask video-to-audio converter.  Each /convert     *)
(* request runs convert_video_to_audio on its own worker; the workers      *)
(* share only the scratch directory /tmp, modelled by fs.                  *)
(***************************************************************************)
EXTENDS Integers, Sequences, FiniteSets, TLC

\* ------------------------------------------------------------------ bounds
MaxChunks == 1
MaxAudioLen == 3

\* the worker threads that run the handler concurrently
Reqs == {1, 2}

\* ------------------------------------------------------- inputs and values
\* str(uuid.uuid4())[:8]: two of the 16^8 possible values
Tokens == {"0a1b2c3d", "9f8e7d6c"}

\* contents write_audiofile may put in the audio scratch file: for each
\* length up to MaxAudioLen, a run of descending bytes 255, 254, ...
Descending(n) == [i \in 1..n |-> 256 - i]
AudioData == {Descending(n) : n \in 0..MaxAudioLen}

\* what iter_content may yield: an empty keep-alive chunk or a data chunk
Chunks == {<<>>, <<255>>}

\* JSON bodies of POST /convert as seen through request.json
Body(kind, has, fid) == [kind |-> kind, has |-> has, file_id |-> fid]
Bodies ==
    { Body("none", FALSE, ""),      \* no JSON body: request.json is None or raises
      Body("array", FALSE, ""),     \* JSON, but not an object
      Body("object", FALSE, ""),    \* {}
      Body("object", TRUE, ""),     \* {"file_id": ""}
      Body("object", TRUE, "fileA"),
      Body("object", TRUE, "fileB") }

\* the request carries a file_id
HasFileId(b) == b.kind = "object" /\ b.has

\* ------------------------------------------------------------ scratch files
VideoPath(u) == [kind |-> "video", id |-> u]
AudioPath(u) == [kind |-> "audio", id |-> u]
NonePath == [kind |-> "None", id |-> ""]
Paths == {VideoPath(u) : u \in Tokens} \cup {AudioPath(u) : u \in Tokens}

NoFile == [exists |-> FALSE, data |-> <<>>, by |-> 0]
File(data, r) == [exists |-> TRUE, data |-> data, by |-> r]

\* ---------------------------------------------------------------- cookies
DownloadWarning ==
    <<"d","o","w","n","l","o","a","d","_","w","a","r","n","i","n","g">>

\* key.startswith(prefix)
StartsWith(key, prefix) ==
    /\ Len(key) >= Len(prefix)
    /\ SubSeq(key, 1, Len(prefix)) = prefix

Cookie(key, value) == [key |-> key, value |-> value]
CkNID == Cookie(<<"N","I","D">>, "n1")
CkWarnA == Cookie(DownloadWarning \o <<"_","a">>, "confA")
CkWarnB == Cookie(DownloadWarning \o <<"_","b">>, "confB")
CkWarn == Cookie(DownloadWarning, "conf0")
CkShort == Cookie(SubSeq(DownloadWarning, 1, 8), "confS")
CkInner == Cookie(<<"x">> \o DownloadWarning, "confX")

\* response.cookies.items() of the first response, in iteration order
CookieJars ==
    { <<>>,
      <<CkNID>>,
      <<CkWarnA>>,
      <<CkNID, CkWarnA, CkWarnB>>,
      <<CkWarn, CkWarnA>>,
      <<CkShort, CkInner>> }

Statuses == {200, 404}

\* the loop without its break: the last download_warning cookie wins
LastWarning(jar) ==
    LET hits == {i \in 1..Len(jar) : StartsWith(jar[i].key, DownloadWarning)}
    IN  IF hits = {} THEN 0 ELSE CHOOSE i \in hits : \A j \in hits : i >= j

\* index of the first cookie the loop of download_from_drive stops at, 0 if none
FirstWarning(jar) ==
    LET hits == {i \in 1..Len(jar) : StartsWith(jar[i].key, DownloadWarning)}
    IN  IF hits = {} THEN 0 ELSE CHOOSE i \in hits : \A j \in hits : i <= j

\* ----------------------------------------------------------------- base64
Alphabet ==
    <<"A","B","C","D","E","F","G","H","I","J","K","L","M","N","O","P",
      "Q","R","S","T","U","V","W","X","Y","Z","a","b","c","d","e","f",
      "g","h","i","j","k","l","m","n","o","p","q","r","s","t","u","v",
      "w","x","y","z","0","1","2","3","4","5","6","7","8","9","+","/">>

Sextet(n) == Alphabet[n + 1]

RECURSIVE B64Encode(_)
B64Encode(bytes) ==
    IF Len(bytes) = 0 THEN <<>>
    ELSE IF Len(bytes) = 1 THEN
        LET n == bytes[1] * 65536
        IN  <<Sextet(n \div 262144), Sextet((n \div 4096) % 64), "=", "=">>
    ELSE IF Len(bytes) = 2 THEN
        LET n == bytes[1] * 65536 + bytes[2] * 256
        IN  <<Sextet(n \div 262144), Sextet((n \div 4096) % 64),
              Sextet((n \div 64) % 64), "=">>
    ELSE
        LET n == bytes[1] * 65536 + bytes[2] * 256 + bytes[3]
        IN  <<Sextet(n \div 262144), Sextet((n \div 4096) % 64),
              Sextet((n \div 64) % 64), Sextet(n % 64)>>
            \o B64Encode(SubSeq(bytes, 4, Len(bytes)))

SextetValue(c) == (CHOOSE i \in 1..64 : Alphabet[i] = c) - 1

RECURSIVE B64Decode(_)
B64Decode(chars) ==
    IF Len(chars) < 4 THEN <<>>
    ELSE
        LET v(i) == IF chars[i] = "=" THEN 0 ELSE SextetValue(chars[i])
            n == v(1) * 262144 + v(2) * 4096 + v(3) * 64 + v(4)
            group == IF chars[3] = "=" THEN <<n \div 65536>>
                     ELSE IF chars[4] = "=" THEN <<n \div 65536, (n \div 256) % 256>>
                     ELSE <<n \div 65536, (n \div 256) % 256, n % 256>>
        IN  group \o B64Decode(SubSeq(chars, 5, Len(chars)))

\* --------------------------------------------------------------- responses
NoResp ==
    [status |-> 0, error |-> "", success |-> FALSE, file_id |-> "",
     audio_base64 |-> <<>>, file_size_bytes |-> 0, format |-> ""]

\* jsonify({'error': msg}), status
ErrorResp(status, msg) == [NoResp EXCEPT !.status = status, !.error = msg]

MsgRequired == "file_id is required"
MsgDownload == "Failed to download video from Google Drive"
MsgConvert == "Failed to convert video to audio"
MsgRead == "Failed to read audio file: "
MsgServer == "Server error: "

\* the length taken of the encoded text instead of the bytes read
FileSizeOfEncoded(audio_data) == Len(B64Encode(audio_data))

\* file_size as the handler computes it
FileSize(audio_data) == Len(audio_data)

\* the jsonify(...) of the success path, HTTP 200 by default
SuccessResp(fid, audio_data) ==
    [status |-> 200, error |-> "", success |-> TRUE, file_id |-> fid,
     audio_base64 |-> B64Encode(audio_data),
     file_size_bytes |-> FileSize(audio_data), format |-> "mp3"]

\* ------------------------------------------------------------------- state
VARIABLES
    pc,          \* where each request's handler is
    body,        \* request.json of the request
    unique_id,   \* the correlation token, "" before line 92
    dl,          \* locals of download_from_drive: the GETs issued and their responses
    chunks,      \* chunks iter_content has yielded so far
    video_path,  \* what download_from_drive returned
    audio_path,  \* what convert_to_audio returned
    audio_data,  \* the bytes f.read() returned, <<>> before
    fs,          \* the scratch directory: path -> file
    todo,        \* file_paths still to be visited by cleanup_files
    pend,        \* the response the handler returns after cleanup_files
    resp,        \* the response the handler returned
    calls,       \* stages the handler has invoked, in order
    results,     \* TRUE/FALSE per stage that returned: a path or data / None or raise
    attempted,   \* paths cleanup_files has visited for this request
    delFailed,   \* paths whose os.remove raised for this request
    foreign      \* the request touched a file another request created

vars == <<pc, body, unique_id, dl, chunks, video_path, audio_path, audio_data, fs, todo,
          pend, resp, calls, results, attempted, delFailed, foreign>>

NoDl == [gets |-> 0, cookies |-> <<>>, status1 |-> 0, status |-> 0, confirm |-> ""]
NoBody == Body("unset", FALSE, "")

Init ==
    /\ pc = [r \in Reqs |-> "idle"]
    /\ body = [r \in Reqs |-> NoBody]
    /\ unique_id = [r \in Reqs |-> ""]
    /\ dl = [r \in Reqs |-> NoDl]
    /\ chunks = [r \in Reqs |-> 0]
    /\ video_path = [r \in Reqs |-> NonePath]
    /\ audio_path = [r \in Reqs |-> NonePath]
    /\ audio_data = [r \in Reqs |-> <<>>]
    /\ fs = [p \in Paths |-> NoFile]
    /\ todo = [r \in Reqs |-> <<>>]
    /\ pend = [r \in Reqs |-> NoResp]
    /\ resp = [r \in Reqs |-> NoResp]
    /\ calls = [r \in Reqs |-> <<>>]
    /\ results = [r \in Reqs |-> <<>>]
    /\ attempted = [r \in Reqs |-> <<>>]
    /\ delFailed = [r \in Reqs |-> {}]
    /\ foreign = [r \in Reqs |-> FALSE]

\* os.path.exists(p)
Exists(p) == p \in Paths /\ fs[p].exists

\* the file at p exists and was created by a request other than r
Foreign(r, p) == Exists(p) /\ fs[p].by # r

\* text of the exception data.get raises, or request.json raises, per body kind
LookupErrors(b) ==
    IF b.kind = "none"
    THEN {"'NoneType' object has no attribute 'get'", "415 Unsupported Media Type"}
    ELSE {"'list' object has no attribute 'get'"}

\* ---------------------------------------------- handler, lines 83 to 96
\* data = request.json; data.get('file_id') raises: the catch-all of line 131
ConvertRaises(r) ==
    /\ pc[r] = "idle"
    /\ \E b \in Bodies :
         /\ b.kind # "object"
         /\ body' = [body EXCEPT ![r] = b]
         /\ \E e \in LookupErrors(b) :
              resp' = [resp EXCEPT ![r] = ErrorResp(500, MsgServer \o e)]
    /\ pc' = [pc EXCEPT ![r] = "done"]
    /\ UNCHANGED <<unique_id, dl, chunks, video_path, audio_path, fs, todo, pend,
                   calls, results, attempted, delFailed, foreign, audio_data>>

\* if not file_id: return 400
ConvertMissing(r) ==
    /\ pc[r] = "idle"
    /\ \E b \in Bodies :
         /\ b.kind = "object"
         /\ ~b.has \/ b.file_id = ""
         /\ body' = [body EXCEPT ![r] = b]
    /\ resp' = [resp EXCEPT ![r] = ErrorResp(400, MsgRequired)]
    /\ pc' = [pc EXCEPT ![r] = "done"]
    /\ UNCHANGED <<unique_id, dl, chunks, video_path, audio_path, fs, todo, pend,
                   calls, results, attempted, delFailed, foreign, audio_data>>

\* unique_id = str(uuid.uuid4())[:8]; download_from_drive(file_id, unique_id)
ConvertStart(r) ==
    /\ pc[r] = "idle"
    /\ \E b \in Bodies :
         /\ b.kind = "object" /\ b.has /\ b.file_id # ""
         /\ body' = [body EXCEPT ![r] = b]
    /\ \E u \in Tokens : unique_id' = [unique_id EXCEPT ![r] = u]
    /\ calls' = [calls EXCEPT ![r] = <<"download">>]
    /\ pc' = [pc EXCEPT ![r] = "dl_get1"]
    /\ UNCHANGED <<dl, chunks, video_path, audio_path, audio_data, fs, todo, pend,
                   resp, results, attempted, delFailed, foreign>>

\* ------------------------------------------ download_from_drive, lines 15 to 41
\* download_from_drive returns None
DlNone(r) ==
    /\ video_path' = [video_path EXCEPT ![r] = NonePath]
    /\ results' = [results EXCEPT ![r] = Append(@, FALSE)]
    /\ pc' = [pc EXCEPT ![r] = "after_dl"]

\* past the cookie loop only the last response is used: the first response's
\* cookies and params are dead
PastLoop(r) == dl' = [dl EXCEPT ![r].cookies = <<>>, ![r].confirm = ""]

\* response = session.get(url, stream=True)
DlGet1(r) ==
    /\ pc[r] = "dl_get1"
    /\ \E s \in Statuses, jar \in CookieJars :
         dl' = [dl EXCEPT ![r] = [gets |-> 1, cookies |-> jar, status1 |-> s,
                                  status |-> s, confirm |-> ""]]
    /\ pc' = [pc EXCEPT ![r] = "dl_cookies"]
    /\ UNCHANGED <<body, unique_id, chunks, video_path, audio_path, fs, todo, pend,
                   resp, calls, results, attempted, delFailed, foreign, audio_data>>

\* the first session.get raises
DlGet1Raises(r) ==
    /\ pc[r] = "dl_get1"
    /\ dl' = [dl EXCEPT ![r].gets = 1]
    /\ DlNone(r)
    /\ UNCHANGED <<body, unique_id, chunks, audio_path, fs, todo, pend, resp,
                   calls, attempted, delFailed, foreign, audio_data>>

\* the cookie loop finds no download_warning key
DlNoWarning(r) ==
    /\ pc[r] = "dl_cookies"
    /\ FirstWarning(dl[r].cookies) = 0
    /\ pc' = [pc EXCEPT ![r] = "dl_status"]
    /\ UNCHANGED <<body, unique_id, dl, chunks, video_path, audio_path, fs, todo,
                   pend, resp, calls, results, attempted, delFailed, foreign, audio_data>>

\* the cookie loop: params = {'confirm': value}; response = session.get(...); break
DlGet2(r) ==
    /\ pc[r] = "dl_cookies"
    /\ FirstWarning(dl[r].cookies) # 0
    /\ \E s \in Statuses :
         dl' = [dl EXCEPT ![r].gets = @ + 1, ![r].status = s,
                          ![r].confirm = dl[r].cookies[FirstWarning(dl[r].cookies)].value]
    /\ pc' = [pc EXCEPT ![r] = "dl_status"]
    /\ UNCHANGED <<body, unique_id, chunks, video_path, audio_path, fs, todo, pend,
                   resp, calls, results, attempted, delFailed, foreign, audio_data>>

\* the second session.get raises
DlGet2Raises(r) ==
    /\ pc[r] = "dl_cookies"
    /\ FirstWarning(dl[r].cookies) # 0
    /\ dl' = [dl EXCEPT ![r].gets = @ + 1,
                        ![r].confirm = dl[r].cookies[FirstWarning(dl[r].cookies)].value]
    /\ DlNone(r)
    /\ UNCHANGED <<body, unique_id, chunks, audio_path, fs, todo, pend, resp,
                   calls, attempted, delFailed, foreign, audio_data>>

\* if response.status_code != 200: return None
DlBadStatus(r) ==
    /\ pc[r] = "dl_status"
    /\ dl[r].status # 200
    /\ DlNone(r)
    /\ PastLoop(r)
    /\ UNCHANGED <<body, unique_id, chunks, audio_path, fs, todo, pend, resp,
                   calls, attempted, delFailed, foreign, audio_data>>

\* open(video_path, 'wb'): creates or truncates the video scratch file
DlOpen(r) ==
    /\ pc[r] = "dl_status"
    /\ dl[r].status = 200
    /\ fs' = [fs EXCEPT ![VideoPath(unique_id[r])] = File(<<>>, r)]
    /\ foreign' = [foreign EXCEPT ![r] = @ \/ Foreign(r, VideoPath(unique_id[r]))]
    /\ pc' = [pc EXCEPT ![r] = "dl_write"]
    /\ PastLoop(r)
    /\ UNCHANGED <<body, unique_id, chunks, video_path, audio_path, todo, pend,
                   resp, calls, results, attempted, delFailed, audio_data>>

\* open(video_path, 'wb') raises
DlOpenRaises(r) ==
    /\ pc[r] = "dl_status"
    /\ dl[r].status = 200
    /\ DlNone(r)
    /\ PastLoop(r)
    /\ UNCHANGED <<body, unique_id, chunks, audio_path, fs, todo, pend, resp,
                   calls, attempted, delFailed, foreign, audio_data>>

\* one round of the iter_content loop: if chunk: f.write(chunk).  A write to
\* a file another request has unlinked meanwhile reaches no path.
DlWrite(r) ==
    /\ pc[r] = "dl_write"
    /\ chunks[r] < MaxChunks
    /\ \E c \in Chunks :
         LET p == VideoPath(unique_id[r])
         IN  IF c # <<>> /\ Exists(p)
             THEN /\ fs' = [fs EXCEPT ![p].data = @ \o c]
                  /\ foreign' = [foreign EXCEPT ![r] = @ \/ Foreign(r, p)]
             ELSE UNCHANGED <<fs, foreign>>
    /\ chunks' = [chunks EXCEPT ![r] = @ + 1]
    /\ UNCHANGED <<pc, body, unique_id, dl, video_path, audio_path, todo, pend,
                   resp, calls, results, attempted, delFailed, audio_data>>

\* iter_content or f.write raises: the with block closes the file, the file stays
DlWriteRaises(r) ==
    /\ pc[r] = "dl_write"
    /\ DlNone(r)
    /\ UNCHANGED <<body, unique_id, dl, chunks, audio_path, fs, todo, pend, resp,
                   calls, attempted, delFailed, foreign, audio_data>>

\* the body is exhausted: return video_path
DlReturn(r) ==
    /\ pc[r] = "dl_write"
    /\ video_path' = [video_path EXCEPT ![r] = VideoPath(unique_id[r])]
    /\ results' = [results EXCEPT ![r] = Append(@, TRUE)]
    /\ pc' = [pc EXCEPT ![r] = "after_dl"]
    /\ UNCHANGED <<body, unique_id, dl, chunks, audio_path, fs, todo, pend, resp,
                   calls, attempted, delFailed, foreign, audio_data>>

\* ------------------------------------------------ handler, lines 98 to 103
\* the handler without the check of line 98: it goes on to convert_to_audio
AfterDownloadUnchecked(r) ==
    /\ pc[r] = "after_dl"
    /\ calls' = [calls EXCEPT ![r] = Append(@, "transcode")]
    /\ pc' = [pc EXCEPT ![r] = "transcode"]
    /\ dl' = [dl EXCEPT ![r] = NoDl]
    /\ chunks' = [chunks EXCEPT ![r] = 0]
    /\ UNCHANGED <<body, unique_id, video_path, audio_path, audio_data, fs, todo,
                   pend, resp, results, attempted, delFailed, foreign>>

\* if not video_path: return 500; else convert_to_audio(video_path, unique_id)
AfterDownload(r) ==
    /\ pc[r] = "after_dl"
    /\ IF video_path[r] = NonePath
       THEN /\ resp' = [resp EXCEPT ![r] = ErrorResp(500, MsgDownload)]
            /\ pc' = [pc EXCEPT ![r] = "done"]
            /\ UNCHANGED calls
       ELSE /\ calls' = [calls EXCEPT ![r] = Append(@, "transcode")]
            /\ pc' = [pc EXCEPT ![r] = "transcode"]
            /\ UNCHANGED resp
    /\ dl' = [dl EXCEPT ![r] = NoDl]
    /\ chunks' = [chunks EXCEPT ![r] = 0]
    /\ UNCHANGED <<body, unique_id, video_path, audio_path, fs, todo, pend,
                   results, attempted, delFailed, foreign, audio_data>>

\* ---------------------------------------------- convert_to_audio, lines 45 to 62
\* convert_to_audio returns None
TcNone(r) ==
    /\ audio_path' = [audio_path EXCEPT ![r] = NonePath]
    /\ results' = [results EXCEPT ![r] = Append(@, FALSE)]
    /\ pc' = [pc EXCEPT ![r] = "after_tc"]

\* the video scratch file is there and holds something VideoFileClip can open
Readable(p) == Exists(p) /\ fs[p].data # <<>>

\* VideoFileClip raises, or video.audio is None: no audio file is written
TcRaisesEarly(r) ==
    /\ pc[r] = "transcode"
    /\ TcNone(r)
    /\ foreign' = [foreign EXCEPT ![r] = @ \/ Foreign(r, video_path[r])]
    /\ UNCHANGED <<body, unique_id, dl, chunks, video_path, fs, todo, pend, resp,
                   calls, attempted, delFailed, audio_data>>

\* write_audiofile raises after it has created the audio scratch file
TcRaisesPartial(r) ==
    /\ pc[r] = "transcode"
    /\ Readable(video_path[r])
    /\ \E a \in AudioData :
         fs' = [fs EXCEPT ![AudioPath(unique_id[r])] = File(a, r)]
    /\ TcNone(r)
    /\ foreign' = [foreign EXCEPT ![r] = @ \/ Foreign(r, video_path[r])
                                           \/ Foreign(r, AudioPath(unique_id[r]))]
    /\ UNCHANGED <<body, unique_id, dl, chunks, video_path, todo, pend, resp,
                   calls, attempted, delFailed, audio_data>>

\* write_audiofile completes: return audio_path
TcReturn(r) ==
    /\ pc[r] = "transcode"
    /\ Readable(video_path[r])
    /\ \E a \in AudioData :
         fs' = [fs EXCEPT ![AudioPath(unique_id[r])] = File(a, r)]
    /\ audio_path' = [audio_path EXCEPT ![r] = AudioPath(unique_id[r])]
    /\ results' = [results EXCEPT ![r] = Append(@, TRUE)]
    /\ pc' = [pc EXCEPT ![r] = "after_tc"]
    /\ foreign' = [foreign EXCEPT ![r] = @ \/ Foreign(r, video_path[r])
                                           \/ Foreign(r, AudioPath(unique_id[r]))]
    /\ UNCHANGED <<body, unique_id, dl, chunks, video_path, todo, pend, resp,
                   calls, attempted, delFailed, audio_data>>

\* ----------------------------------------------- handler, lines 105 to 107
\* the handler without the cleanup_files call of line 106
AfterTranscodeNoCleanup(r) ==
    /\ pc[r] = "after_tc"
    /\ IF audio_path[r] = NonePath
       THEN /\ todo' = [todo EXCEPT ![r] = <<>>]
            /\ pend' = [pend EXCEPT ![r] = ErrorResp(500, MsgConvert)]
            /\ pc' = [pc EXCEPT ![r] = "cleanup"]
            /\ UNCHANGED calls
       ELSE /\ calls' = [calls EXCEPT ![r] = Append(@, "read")]
            /\ pc' = [pc EXCEPT ![r] = "read"]
            /\ UNCHANGED <<todo, pend>>
    /\ UNCHANGED <<body, unique_id, dl, chunks, video_path, audio_path, audio_data,
                   fs, resp, results, attempted, delFailed, foreign>>

\* the handler calling convert_to_audio a second time when the first call failed
AfterTranscodeRetry(r) ==
    /\ pc[r] = "after_tc"
    /\ IF audio_path[r] = NonePath
       THEN IF Len(calls[r]) < 3
            THEN /\ calls' = [calls EXCEPT ![r] = Append(@, "transcode")]
                 /\ pc' = [pc EXCEPT ![r] = "transcode"]
                 /\ UNCHANGED <<todo, pend>>
            ELSE /\ todo' = [todo EXCEPT ![r] = <<video_path[r]>>]
                 /\ pend' = [pend EXCEPT ![r] = ErrorResp(500, MsgConvert)]
                 /\ pc' = [pc EXCEPT ![r] = "cleanup"]
                 /\ UNCHANGED calls
       ELSE /\ calls' = [calls EXCEPT ![r] = Append(@, "read")]
            /\ pc' = [pc EXCEPT ![r] = "read"]
            /\ UNCHANGED <<todo, pend>>
    /\ UNCHANGED <<body, unique_id, dl, chunks, video_path, audio_path, audio_data,
                   fs, resp, results, attempted, delFailed, foreign>>

\* if not audio_path: cleanup_files([video_path]); return 500
AfterTranscode(r) ==
    /\ pc[r] = "after_tc"
    /\ IF audio_path[r] = NonePath
       THEN /\ todo' = [todo EXCEPT ![r] = <<video_path[r]>>]
            /\ pend' = [pend EXCEPT ![r] = ErrorResp(500, MsgConvert)]
            /\ pc' = [pc EXCEPT ![r] = "cleanup"]
            /\ UNCHANGED calls
       ELSE /\ calls' = [calls EXCEPT ![r] = Append(@, "read")]
            /\ pc' = [pc EXCEPT ![r] = "read"]
            /\ UNCHANGED <<todo, pend>>
    /\ UNCHANGED <<body, unique_id, dl, chunks, video_path, audio_path, fs, resp,
                   results, attempted, delFailed, foreign, audio_data>>

\* ----------------------------------------------- handler, lines 110 to 129
\* open, f.read(), b64encode, len: then cleanup_files and the 200 response
ReadAudio(r) ==
    /\ pc[r] = "read"
    /\ Exists(audio_path[r])
    /\ audio_data' = [audio_data EXCEPT ![r] = fs[audio_path[r]].data]
    /\ pend' = [pend EXCEPT ![r] = SuccessResp(body[r].file_id, fs[audio_path[r]].data)]
    /\ todo' = [todo EXCEPT ![r] = <<video_path[r], audio_path[r]>>]
    /\ results' = [results EXCEPT ![r] = Append(@, TRUE)]
    /\ foreign' = [foreign EXCEPT ![r] = @ \/ Foreign(r, audio_path[r])]
    /\ pc' = [pc EXCEPT ![r] = "cleanup"]
    /\ UNCHANGED <<body, unique_id, dl, chunks, video_path, audio_path, fs, resp,
                   calls, attempted, delFailed>>

\* text of the exception open or f.read raises
ReadErrors(p) ==
    IF Exists(p) THEN {"[Errno 5] Input/output error"}
    ELSE {"[Errno 2] No such file or directory"}

\* the except branch of line 116: cleanup_files and the 500 response
ReadAudioRaises(r) ==
    /\ pc[r] = "read"
    /\ \E e \in ReadErrors(audio_path[r]) :
         pend' = [pend EXCEPT ![r] = ErrorResp(500, MsgRead \o e)]
    /\ todo' = [todo EXCEPT ![r] = <<video_path[r], audio_path[r]>>]
    /\ results' = [results EXCEPT ![r] = Append(@, FALSE)]
    /\ pc' = [pc EXCEPT ![r] = "cleanup"]
    /\ UNCHANGED <<body, unique_id, dl, chunks, video_path, audio_path, fs, resp,
                   calls, attempted, delFailed, foreign, audio_data>>

\* ------------------------------------------------ cleanup_files, lines 66 to 71
\* os.path.exists(path) is false, or the file vanished before os.remove
CleanupAbsent(r) ==
    /\ pc[r] = "cleanup"
    /\ todo[r] # <<>>
    /\ ~Exists(Head(todo[r]))
    /\ attempted' = [attempted EXCEPT ![r] = Append(@, Head(todo[r]))]
    /\ todo' = [todo EXCEPT ![r] = Tail(@)]
    /\ UNCHANGED <<pc, body, unique_id, dl, chunks, video_path, audio_path, fs,
                   pend, resp, calls, results, delFailed, foreign, audio_data>>

\* os.remove(path) succeeds
CleanupRemove(r) ==
    /\ pc[r] = "cleanup"
    /\ todo[r] # <<>>
    /\ Exists(Head(todo[r]))
    /\ fs' = [fs EXCEPT ![Head(todo[r])] = NoFile]
    /\ foreign' = [foreign EXCEPT ![r] = @ \/ Foreign(r, Head(todo[r]))]
    /\ attempted' = [attempted EXCEPT ![r] = Append(@, Head(todo[r]))]
    /\ todo' = [todo EXCEPT ![r] = Tail(@)]
    /\ UNCHANGED <<pc, body, unique_id, dl, chunks, video_path, audio_path, pend,
                   resp, calls, results, delFailed, audio_data>>

\* cleanup_files without its try: the error of os.remove reaches the
\* catch-all of line 131
CleanupRemoveRaises(r) ==
    /\ pc[r] = "cleanup"
    /\ todo[r] # <<>>
    /\ Exists(Head(todo[r]))
    /\ delFailed' = [delFailed EXCEPT ![r] = @ \cup {Head(todo[r])}]
    /\ attempted' = [attempted EXCEPT ![r] = Append(@, Head(todo[r]))]
    /\ todo' = [todo EXCEPT ![r] = <<>>]
    /\ pend' = [pend EXCEPT ![r] = NoResp]
    /\ resp' = [resp EXCEPT ![r] =
                  ErrorResp(500, MsgServer \o "[Errno 13] Permission denied")]
    /\ pc' = [pc EXCEPT ![r] = "done"]
    /\ UNCHANGED <<body, unique_id, dl, chunks, video_path, audio_path, audio_data,
                   fs, calls, results, foreign>>

\* os.remove(path) raises: except: pass, the loop goes on
CleanupRemoveError(r) ==
    /\ pc[r] = "cleanup"
    /\ todo[r] # <<>>
    /\ Exists(Head(todo[r]))
    /\ delFailed' = [delFailed EXCEPT ![r] = @ \cup {Head(todo[r])}]
    /\ attempted' = [attempted EXCEPT ![r] = Append(@, Head(todo[r]))]
    /\ todo' = [todo EXCEPT ![r] = Tail(@)]
    /\ UNCHANGED <<pc, body, unique_id, dl, chunks, video_path, audio_path, fs,
                   pend, resp, calls, results, foreign, audio_data>>

\* cleanup_files is through: the handler returns the response
Return(r) ==
    /\ pc[r] = "cleanup"
    /\ todo[r] = <<>>
    /\ resp' = [resp EXCEPT ![r] = pend[r]]
    /\ pend' = [pend EXCEPT ![r] = NoResp]
    /\ pc' = [pc EXCEPT ![r] = "done"]
    /\ UNCHANGED <<body, unique_id, dl, chunks, video_path, audio_path, fs, todo,
                   calls, results, attempted, delFailed, foreign, audio_data>>

\* ------------------------------------------------------------ specification
Next ==
    \E r \in Reqs :
        \/ ConvertRaises(r)
        \/ ConvertMissing(r)
        \/ ConvertStart(r)
        \/ DlGet1(r)
        \/ DlGet1Raises(r)
        \/ DlNoWarning(r)
        \/ DlGet2(r)
        \/ DlGet2Raises(r)
        \/ DlBadStatus(r)
        \/ DlOpen(r)
        \/ DlOpenRaises(r)
        \/ DlWrite(r)
        \/ DlWriteRaises(r)
        \/ DlReturn(r)
        \/ AfterDownload(r)
        \/ TcRaisesEarly(r)
        \/ TcRaisesPartial(r)
        \/ TcReturn(r)
        \/ AfterTranscode(r)
        \/ ReadAudio(r)
        \/ ReadAudioRaises(r)
        \/ CleanupAbsent(r)
        \/ CleanupRemove(r)
        \/ CleanupRemoveError(r)
        \/ Return(r)

Spec == Init /\ [][Next]_vars

TypeOK ==
    /\ \A r \in Reqs : resp[r].status \in {0, 200, 400, 500}
    /\ \A p \in Paths : fs[p].by \in Reqs \cup {0}

\* ------------------------------------------------------------------ claims
Done(r) == pc[r] = "done"
Stages == <<"download", "transcode", "read">>
IsPrefix(a, b) == Len(a) <= Len(b) /\ SubSeq(b, 1, Len(a)) = a

\* the request r wrote the file now at path p
WrittenBy(r, p) == Exists(p) /\ fs[p].by = r

\* C1: when the handler has returned, neither the video nor the audio scratch
\* file of the request's correlation token exists.
C1_NoScratchFileAfterReturn ==
    \A r \in Reqs :
        Done(r) /\ unique_id[r] # "" =>
            /\ ~Exists(VideoPath(unique_id[r]))
            /\ ~Exists(AudioPath(unique_id[r]))

\* C2: a request whose body carries no file_id (field absent, body not a JSON
\* object, no JSON body) is answered with HTTP 400 and an error field, no
\* stage is invoked and the request creates no scratch file.
C2_MissingFileIdIs400 ==
    \A r \in Reqs :
        Done(r) /\ ~HasFileId(body[r]) =>
            /\ resp[r].status = 400
            /\ resp[r].error # ""
            /\ calls[r] = <<>>
            /\ \A p \in Paths : ~WrittenBy(r, p)

\* C3: when both stages returned a path and the audio file was read, the
\* response is HTTP 200 with success true, the file_id of the request, format
\* "mp3", audio_base64 the base64 text of the bytes read, and file_size_bytes
\* the number of bytes audio_base64 decodes to.
C3_SuccessResponse ==
    \A r \in Reqs :
        Done(r) /\ results[r] = <<TRUE, TRUE, TRUE>> =>
            /\ resp[r].status = 200
            /\ resp[r].success
            /\ resp[r].error = ""
            /\ resp[r].file_id = body[r].file_id
            /\ resp[r].format = "mp3"
            /\ B64Decode(resp[r].audio_base64) = audio_data[r]
            /\ Len(resp[r].audio_base64) = 4 * ((Len(audio_data[r]) + 2) \div 3)
            /\ resp[r].file_size_bytes = Len(B64Decode(resp[r].audio_base64))

\* C3 witness: a request answered 200 whose two audio bytes 255, 254 came
\* back as the padded text "//4=".
C3_Witness ==
    \E r \in Reqs :
        /\ Done(r)
        /\ results[r] = <<TRUE, TRUE, TRUE>>
        /\ resp[r].status = 200
        /\ resp[r].file_size_bytes = 2
        /\ resp[r].audio_base64 = <<"/", "/", "4", "=">>

\* C4: once download_from_drive has returned None (non-200 status or an
\* exception), convert_to_audio is never invoked for the request, the request
\* never writes an audio scratch file, and the response is HTTP 500 with the
\* download-failure message.
C4_DownloadFailure ==
    \A r \in Reqs :
        results[r] # <<>> /\ ~results[r][1] =>
            /\ calls[r] = <<"download">>
            /\ results[r] = <<FALSE>>
            /\ audio_path[r] = NonePath
            /\ ~WrittenBy(r, AudioPath(unique_id[r]))
            /\ pc[r] \in {"after_dl", "done"}
            /\ Done(r) => resp[r] = ErrorResp(500, MsgDownload)

\* C4 witness: a request whose download broke off during the chunked write
\* was answered 500.
C4_Witness ==
    \E r \in Reqs :
        /\ Done(r)
        /\ results[r] = <<FALSE>>
        /\ resp[r].status = 500
        /\ WrittenBy(r, VideoPath(unique_id[r]))

\* C5 as stated: after convert_to_audio failed, the response is HTTP 500 with
\* the conversion-failure message and the video scratch file does not exist
\* when the handler returns.
C5_VideoGoneAfterTranscodeFailure ==
    \A r \in Reqs :
        Done(r) /\ results[r] = <<TRUE, FALSE>> =>
            /\ resp[r] = ErrorResp(500, MsgConvert)
            /\ ~Exists(VideoPath(unique_id[r]))

\* C5 amended: after convert_to_audio failed, the response is HTTP 500 with
\* the conversion-failure message, cleanup_files has visited exactly the
\* video scratch path, and the video scratch file the request wrote is gone
\* unless os.remove raised on it.
C5_VideoCleanupAttempted ==
    \A r \in Reqs :
        Done(r) /\ results[r] = <<TRUE, FALSE>> =>
            /\ resp[r] = ErrorResp(500, MsgConvert)
            /\ attempted[r] = <<VideoPath(unique_id[r])>>
            /\ \/ VideoPath(unique_id[r]) \in delFailed[r]
               \/ ~WrittenBy(r, VideoPath(unique_id[r]))

\* C5 witness: a request running alone whose conversion failed, answered 500,
\* its video scratch file removed.
C5_Witness ==
    \E r \in Reqs :
        /\ Done(r)
        /\ results[r] = <<TRUE, FALSE>>
        /\ resp[r].status = 500
        /\ delFailed[r] = {}
        /\ ~Exists(VideoPath(unique_id[r]))
        /\ \A q \in Reqs \ {r} : pc[q] = "idle"

\* C6: two requests in flight with distinct file_id values hold distinct
\* correlation tokens, and no request writes, reads or deletes a scratch file
\* the other created.
C6_IndependentRequests ==
    \A r \in Reqs, q \in Reqs :
        /\ r # q
        /\ unique_id[r] # "" /\ unique_id[q] # ""
        /\ ~Done(r) /\ ~Done(q)
        /\ body[r].file_id # body[q].file_id
        => /\ unique_id[r] # unique_id[q]
           /\ ~foreign[r]

\* C7: when download_from_drive has returned None, no video scratch file of
\* the request's correlation token exists.
C7_NoVideoFileOnDownloadFailure ==
    \A r \in Reqs :
        results[r] = <<FALSE>> => ~Exists(VideoPath(unique_id[r]))

\* C8: the stages are invoked in the order download, transcode, read, each at
\* most once; a stage is invoked only after every earlier one returned a path;
\* after a stage failed no stage is invoked again.
C8_StageOrder ==
    \A r \in Reqs :
        /\ IsPrefix(calls[r], Stages)
        /\ Len(results[r]) <= Len(calls[r])
        /\ Len(calls[r]) <= Len(results[r]) + 1
        /\ \A i \in 1..Len(results[r]) : i < Len(calls[r]) => results[r][i]
        /\ pc[r] \in {"cleanup", "done"} => Len(results[r]) = Len(calls[r])
        /\ Done(r) /\ calls[r] # <<>> /\ resp[r].status = 200 =>
               results[r] = <<TRUE, TRUE, TRUE>>

\* C8 witness: a request that was answered with an error after its third
\* stage, the read of the audio file, failed.
C8_Witness ==
    \E r \in Reqs :
        /\ Done(r)
        /\ calls[r] = Stages
        /\ results[r] = <<TRUE, TRUE, FALSE>>
        /\ resp[r].status = 500

\* the cookies of jar whose key begins with download_warning
WarningCookies(jar) == {i \in 1..Len(jar) : StartsWith(jar[i].key, DownloadWarning)}

\* C9: download_from_drive issues at most two GETs; past the cookie loop the
\* second GET was issued exactly when the first response carries a
\* download_warning cookie, with the value of the first such cookie as
\* confirm; the file is opened only on a last status of 200 and a last
\* status other than 200 makes the call return None.
C9_AtMostTwoGets ==
    \A r \in Reqs :
        /\ dl[r].gets <= 2
        /\ dl[r].gets = 2 /\ dl[r].cookies # <<>> =>
               \E i \in WarningCookies(dl[r].cookies) :
                   /\ \A j \in WarningCookies(dl[r].cookies) : i <= j
                   /\ dl[r].confirm = dl[r].cookies[i].value
        /\ pc[r] = "dl_status" =>
               /\ dl[r].gets = 2 <=> WarningCookies(dl[r].cookies) # {}
               /\ dl[r].gets = 1 => dl[r].status = dl[r].status1 /\ dl[r].confirm = ""
        /\ pc[r] = "dl_write" => dl[r].status = 200
        /\ pc[r] = "after_dl" /\ dl[r].status \notin {0, 200} =>
               video_path[r] = NonePath /\ results[r] = <<FALSE>>

\* C9 witness: a first response 404 with two download_warning cookies, one
\* second GET confirmed with the first cookie's value and answered 200.
C9_Witness ==
    \E r \in Reqs :
        /\ pc[r] = "dl_status"
        /\ dl[r].gets = 2
        /\ Cardinality(WarningCookies(dl[r].cookies)) = 2
        /\ dl[r].confirm = "confA"
        /\ dl[r].status1 = 404
        /\ dl[r].status = 200

\* the messages of the read-failure branch
ReadFailures ==
    {MsgRead \o e : e \in {"[Errno 5] Input/output error",
                           "[Errno 2] No such file or directory"}}

\* C10: cleanup_files visits every path of its list whatever os.remove does,
\* and the response is the one the stage results decide, whether or not a
\* deletion failed.
C10_CleanupBestEffort ==
    \A r \in Reqs :
        Done(r) /\ Len(results[r]) >= 2 =>
            /\ results[r] = <<TRUE, FALSE>> =>
                   /\ attempted[r] = <<VideoPath(unique_id[r])>>
                   /\ resp[r] = ErrorResp(500, MsgConvert)
            /\ results[r] = <<TRUE, TRUE, FALSE>> =>
                   /\ attempted[r] = <<VideoPath(unique_id[r]), AudioPath(unique_id[r])>>
                   /\ resp[r].status = 500
                   /\ resp[r].error \in ReadFailures
            /\ results[r] = <<TRUE, TRUE, TRUE>> =>
                   /\ attempted[r] = <<VideoPath(unique_id[r]), AudioPath(unique_id[r])>>
                   /\ resp[r] = SuccessResp(body[r].file_id, audio_data[r])
            /\ delFailed[r] \subseteq {attempted[r][i] : i \in 1..Len(attempted[r])}

\* C10 witness: os.remove raised on the video scratch file, the audio scratch
\* file was visited all the same and the request was answered 200.
C10_Witness ==
    \E r \in Reqs :
        /\ Done(r)
        /\ VideoPath(unique_id[r]) \in delFailed[r]
        /\ attempted[r] = <<VideoPath(unique_id[r]), AudioPath(unique_id[r])>>
        /\ ~Exists(AudioPath(unique_id[r]))
        /\ resp[r].status = 200

====
